---- MODULE Spec2Model ----
(***************************************************************************)
(* Work-hour tracker (src/src/App.tsx): the cycle calendar, the log        *)
(* reconciliation, the mutating handlers of App and the load/save effects. *)
(*                                                                         *)
(* Encoding of the program's values                                        *)
(*   date strings   an integer: n > 0 is the ISO date "YYYY-MM-DD" of day  *)
(*                  number n (day n falls on weekday n % 7, 0 = Sunday),   *)
(*                  EmptyDate is '' and GarbageDate a text that is no date *)
(*   time strings   the sequence of their characters, a digit as itself    *)
(*                  and ':' as Colon (it sorts after '9' as in ASCII);     *)
(*                  '' is << >>                                            *)
(*   instants       hours since 00:00 UTC of day 0 (a Date object)         *)
(*   ids            integers; crypto.randomUUID() returns nextId, a value  *)
(*                  never returned before and held by no stored record     *)
(*   stored text    localStorage values: the cycle as an optional string   *)
(*                  (<< >> is null, <<s>> the string s), the logs as       *)
(*                  [kind, val] where kind tells what the text is          *)
(***************************************************************************)
EXTENDS Integers, Sequences, FiniteSets, TLC

VARIABLES
    utcOffset,   \* environment: local UTC offset in hours
    now,         \* environment: the instant new Date() returns
    storageUp,   \* environment: FALSE when localStorage throws on access
    store,       \* localStorage: [cycle |-> 'worklogs-cycle', logs |-> 'worklogs-v3']
    cycleStart,  \* useState cycleStart
    logs,        \* useState logs
    loaded,      \* useState loaded
    err,         \* "none", or the exception that left the handler or effect uncaught
    nextId,      \* the next value of crypto.randomUUID()
    lastOp,      \* history: the last handler or effect run and its arguments
    prevOp,      \* history: the one run before it
    prevLogs,    \* history: the list that handler or effect started from
    prevCycle,   \* history: cycleStart before it
    prevNextId,  \* history: nextId before it
    steps,       \* history: number of handler calls and reloads so far
    probe        \* the last call of a pure function and its result (the
                 \* specifications that exercise the functions on their own)

vars == <<utcOffset, now, storageUp, store, cycleStart, logs, loaded, err,
          nextId, lastOp, prevOp, prevLogs, prevCycle, prevNextId, steps, probe>>

(* ------------------------------ bounds -------------------------------- *)

\* number of handler calls and reloads explored after construction
MaxSteps == 2

(* ----------------------------- constants ------------------------------ *)

EmptyDate == 0

GarbageDate == -1

Colon == 10

CYCLE_DAYS == 14

TARGET_HOURS == 80

T0000 == <<0, 0, Colon, 0, 0>>

T1001 == <<1, 0, Colon, 0, 1>>

T0900 == <<0, 9, Colon, 0, 0>>

T1000 == <<1, 0, Colon, 0, 0>>

T1700 == <<1, 7, Colon, 0, 0>>

CORE_START == <<1, 0, Colon, 0, 0>>

CORE_END == <<1, 6, Colon, 0, 0>>

\* local UTC offsets in hours (west of, at, east of Greenwich)
Offsets == {-5, 0, 9}

\* the instants at which the page is opened: Sunday, day 14, 22:00 UTC (a
\* Monday morning east of Greenwich)
NowSet == {14 * 24 + 22}

(* --------------------------- Date arithmetic --------------------------- *)

IsDate(s) == s > 0

\* new Date(s + 'T00:00:00'): local midnight of s as an instant; << >> is
\* Invalid Date
parseLocal(s) == IF IsDate(s) THEN <<s * 24 - utcOffset>> ELSE << >>

\* Date.prototype.getDay on a valid instant: weekday of the local date
getDay(t) == ((t + utcOffset) \div 24) % 7

\* d.toISOString().split('T')[0] on a valid instant: the UTC date
toISODate(t) == t \div 24

\* d.setDate(d.getDate() + k): k local days later, same local time of day
addDays(t, k) == t + 24 * k

isWeekend(dateStr) ==
    IF dateStr = EmptyDate THEN FALSE
    ELSE LET d == parseLocal(dateStr)
         IN  IF d = << >> THEN FALSE   \* getDay() of Invalid Date is NaN
             ELSE getDay(d[1]) = 0 \/ getDay(d[1]) = 6

getMondayOfCurrentCycle ==
    LET day  == getDay(now)
        diff == IF day = 0 THEN -6 ELSE 1 - day
        d    == addDays(now, diff)
        d0   == d - ((d + utcOffset) % 24)      \* setHours(0, 0, 0, 0)
    IN  toISODate(d0)

\* the date string pushed in iteration i (0-based) of the loop, before the
\* weekend test
cycleDateAt(cycleStart_, i) == toISODate(addDays(parseLocal(cycleStart_)[1], i))

\* getWeekdaysInCycle: [ok |-> FALSE] when toISOString throws RangeError on
\* Invalid Date, else the dates pushed, in loop order
getWeekdaysInCycle(cycleStart_) ==
    IF parseLocal(cycleStart_) = << >>
    THEN [ok |-> FALSE, dates |-> << >>]
    ELSE [ok |-> TRUE,
          dates |-> SelectSeq([i \in 1..CYCLE_DAYS |-> cycleDateAt(cycleStart_, i - 1)],
                              LAMBDA ds : ~isWeekend(ds))]

(* --------------------------- Time arithmetic --------------------------- *)

\* index of the first ':' of s, Len(s) + 1 if it has none
colonAt(s) ==
    IF \E i \in 1..Len(s) : s[i] = Colon
    THEN CHOOSE i \in 1..Len(s) : s[i] = Colon /\ \A j \in 1..(i - 1) : s[j] # Colon
    ELSE Len(s) + 1

\* Number(s) of a string of digits; Number('') is 0
RECURSIVE Number(_)
Number(s) == IF s = << >> THEN 0 ELSE 10 * Number(SubSeq(s, 1, Len(s) - 1)) + s[Len(s)]

\* the first two elements of s.split(':').map(Number), for a string with
\* one ':' between two strings of digits
splitHM(s) ==
    <<Number(SubSeq(s, 1, colonAt(s) - 1)), Number(SubSeq(s, colonAt(s) + 1, Len(s)))>>

\* mutant of calculateHours: Math.max(0, ...) is missing
calculateHours_noClamp(start, end) ==
    IF start = << >> \/ end = << >> THEN 0
    ELSE (splitHM(end)[1] * 60 + splitHM(end)[2]) - (splitHM(start)[1] * 60 + splitHM(start)[2])

\* calculateHours, in sixtieths of an hour: the value is calculateHours * 60,
\* so that diff / 60 stays an integer
calculateHours(start, end) ==
    IF start = << >> \/ end = << >> THEN 0
    ELSE LET sH == splitHM(start)[1]
             sM == splitHM(start)[2]
             eH == splitHM(end)[1]
             eM == splitHM(end)[2]
             diff == eH * 60 + eM - (sH * 60 + sM)
         IN  IF diff > 0 THEN diff ELSE 0

\* a <= b on JavaScript strings: compare the first differing character, a
\* proper prefix sorts first
strLE(a, b) ==
    LET m == IF Len(a) < Len(b) THEN Len(a) ELSE Len(b)
        diffs == {i \in 1..m : a[i] # b[i]}
    IN  IF diffs = {} THEN Len(a) <= Len(b)
        ELSE LET i == CHOOSE x \in diffs : \A y \in diffs : x <= y
             IN  a[i] < b[i]

\* a < b on JavaScript strings
strLT(a, b) == strLE(a, b) /\ a # b

\* mutant of isCoreOk: the bounds are exclusive
isCoreOk_strict(start, end) ==
    start # << >> /\ end # << >> /\ strLT(start, CORE_START) /\ strLT(CORE_END, end)

isCoreOk(start, end) ==
    start # << >> /\ end # << >> /\ strLE(start, CORE_START) /\ strLE(CORE_END, end)

(* ------------------------------ WorkLog -------------------------------- *)

WorkLog(id, date, start, end) == [id |-> id, date |-> date, start |-> start, end |-> end]

\* mutant of findByDate: the predicate never matches
findByDate_never(existing, date) == 0

\* existing.find((l) => l.date === date): index of the first match, 0 if none
findByDate(existing, date) ==
    IF \E i \in 1..Len(existing) : existing[i].date = date
    THEN CHOOSE i \in 1..Len(existing) :
            /\ existing[i].date = date
            /\ \A j \in 1..(i - 1) : existing[j].date # date
    ELSE 0

\* a JavaScript value handed to initLogsForCycle as `existing`
Arr(list) == [isArray |-> TRUE, val |-> list]

NotArr == [isArray |-> FALSE, val |-> << >>]

\* initLogsForCycle with the id source made explicit: nid is the next value
\* of crypto.randomUUID(). Returns the exception thrown ("none" if none), the
\* new list and the advanced id source. getWeekdaysInCycle runs first; then
\* the map callback calls existing.find, a TypeError unless existing is an
\* array.
initLogsForCycle(cycle, existing, nid) ==
    LET w == getWeekdaysInCycle(cycle)
        ex == existing.val
        missing(k) == Cardinality({j \in 1..k : findByDate(ex, w.dates[j]) = 0})
    IN  IF ~w.ok
        THEN [err |-> "RangeError", logs |-> << >>, nextId |-> nid]
        ELSE IF ~existing.isArray /\ Len(w.dates) > 0
        THEN [err |-> "TypeError", logs |-> << >>, nextId |-> nid]
        ELSE [err |-> "none",
              logs |-> [k \in 1..Len(w.dates) |->
                          LET f == findByDate(ex, w.dates[k])
                          IN  IF f # 0 THEN ex[f]
                              ELSE WorkLog(nid + missing(k) - 1, w.dates[k], << >>, << >>)],
              nextId |-> nid + missing(Len(w.dates))]

(* ------------------------------ storage -------------------------------- *)

\* the text kept under 'worklogs-v3'
Text(kind, val) == [kind |-> kind, val |-> val]

\* JSON.stringify(logs)
jsonStringify(list) == Text("array", list)

\* JSON.parse(text): ok = FALSE when it throws SyntaxError
jsonParse(text) ==
    CASE text.kind = "array"   -> [ok |-> TRUE, value |-> Arr(text.val)]
      [] text.kind = "invalid" -> [ok |-> FALSE, value |-> NotArr]
      [] OTHER                 -> [ok |-> TRUE, value |-> NotArr]  \* null, object, number, string

\* storage.get('worklogs-cycle'): << >> is null
storageGetCycle == IF storageUp THEN store.cycle ELSE << >>

\* storage.get('worklogs-v3'): kind "absent" is null
storageGetLogs == IF storageUp THEN store.logs ELSE Text("absent", << >>)

\* the two save effects (lines 107-115) after a commit: 'worklogs-v3' is
\* written when logs or loaded changed, 'worklogs-cycle' when cycleStart or
\* loaded changed; storage.set swallows a failing write
saved(newLogs, newCycle, logsChanged, cycleChanged) ==
    IF ~storageUp THEN store
    ELSE [logs  |-> IF logsChanged THEN jsonStringify(newLogs) ELSE store.logs,
          cycle |-> IF cycleChanged THEN <<newCycle>> ELSE store.cycle]

(* ----------------------------- statistics ------------------------------ *)

\* the row counts as worked (line 152)
isWorked(l) == l.start # << >> /\ l.end # << >>

\* the row counts as a core violation (line 151)
isViolation(l) == l.start # << >> /\ l.end # << >> /\ ~isCoreOk(l.start, l.end)

\* logs.reduce((acc, l) => acc + calculateHours(l.start, l.end), 0)
RECURSIVE reduceHours(_)
reduceHours(list) ==
    IF list = << >> THEN 0
    ELSE reduceHours(SubSeq(list, 1, Len(list) - 1))
            + calculateHours(list[Len(list)].start, list[Len(list)].end)

\* mutant of stats: remain is not clamped at 0
stats_noClamp(list) ==
    LET total == reduceHours(list)
        workedDays == Len(SelectSeq(list, isWorked))
    IN  [total |-> total,
         remain |-> TARGET_HOURS * 60 - total,
         percent |-> IF total * 100 < 100 * (TARGET_HOURS * 60)
                     THEN <<total * 100, TARGET_HOURS * 60>> ELSE <<100, 1>>,
         coreViolations |-> Len(SelectSeq(list, isViolation)),
         workedDays |-> workedDays,
         avgDaily |-> IF workedDays # 0 THEN <<total, workedDays>> ELSE <<0, 1>>]

\* stats (lines 147-155). Hours (total, remain, avgDaily) are in sixtieths,
\* as calculateHours; the quotients percent and avgDaily are kept exact as
\* <<numerator, denominator>>
stats(list) ==
    LET total == reduceHours(list)
        workedDays == Len(SelectSeq(list, isWorked))
    IN  [total |-> total,
         remain |-> IF TARGET_HOURS * 60 - total > 0 THEN TARGET_HOURS * 60 - total ELSE 0,
         percent |-> IF total * 100 < 100 * (TARGET_HOURS * 60)
                     THEN <<total * 100, TARGET_HOURS * 60>> ELSE <<100, 1>>,
         coreViolations |-> Len(SelectSeq(list, isViolation)),
         workedDays |-> workedDays,
         avgDaily |-> IF workedDays # 0 THEN <<total, workedDays>> ELSE <<0, 1>>]

(* ------------------------- the state updaters -------------------------- *)

\* mutant of clockInMap: the !l.start test is missing
clockInMap_overwrite(prev, id, nowStr) ==
    [k \in 1..Len(prev) |-> IF prev[k].id = id THEN [prev[k] EXCEPT !.start = nowStr] ELSE prev[k]]

\* mutant of clockOutMap: end is set only on a row that has a start
clockOutMap_guarded(prev, id, nowStr) ==
    [k \in 1..Len(prev) |->
        IF prev[k].id = id /\ prev[k].start # << >> THEN [prev[k] EXCEPT !.end = nowStr] ELSE prev[k]]

\* mutant of clearLogMap: end is left as it is
clearLogMap_startOnly(prev, id) ==
    [k \in 1..Len(prev) |-> IF prev[k].id = id THEN [prev[k] EXCEPT !.start = << >>] ELSE prev[k]]

\* mutant of updateLogMap: a date that is empty or falls on a weekend is
\* refused
updateLogMap_validated(prev, id, field, value) ==
    [k \in 1..Len(prev) |->
        IF prev[k].id = id /\ ~(field = "date" /\ value % 7 \in {0, 6})
        THEN [prev[k] EXCEPT ![field] = value] ELSE prev[k]]

\* updateLog's updater (line 123)
updateLogMap(prev, id, field, value) ==
    [k \in 1..Len(prev) |-> IF prev[k].id = id THEN [prev[k] EXCEPT ![field] = value] ELSE prev[k]]

\* clockIn's updater (line 128); !l.start is true of ''
clockInMap(prev, id, nowStr) ==
    [k \in 1..Len(prev) |->
        IF prev[k].id = id /\ prev[k].start = << >> THEN [prev[k] EXCEPT !.start = nowStr] ELSE prev[k]]

\* clockOut's updater (line 134)
clockOutMap(prev, id, nowStr) ==
    [k \in 1..Len(prev) |-> IF prev[k].id = id THEN [prev[k] EXCEPT !.end = nowStr] ELSE prev[k]]

\* clearLog's updater (line 139)
clearLogMap(prev, id) ==
    [k \in 1..Len(prev) |->
        IF prev[k].id = id THEN [prev[k] EXCEPT !.start = << >>, !.end = << >>] ELSE prev[k]]

(* ------------------------------- inputs -------------------------------- *)

\* what the cycle date input delivers: '' when cleared, else a date (Monday
\* day 8, Tuesday day 9, Monday day 15)
CycleInputs == {EmptyDate, 8, 9, 15}

\* what a row's date input delivers ('', Tuesday, Saturday)
DateInputs == {EmptyDate, 9, 13}

\* what a row's time input delivers
TimeInputs == {<< >>, T0900, T1700}

\* what getNowTimeStr returns
NowTimes == {T1000, T1700}

\* the rows whose inputs and buttons are used
TargetRows == {1, 2}

\* the ids the handlers are called with: those of the rows used, and one
\* that no row has
TargetIds == {logs[k].id : k \in TargetRows \cap (1..Len(logs))} \cup {0}

\* lists a previous session (or anything else writing the key) left under
\* 'worklogs-v3'; every record carries the id crypto.randomUUID() gave it,
\* so the ids of a list are distinct and below the first id of this session
StoredLists ==
    { << >>,
      <<WorkLog(1, 8, T0900, T1000), WorkLog(2, 9, T1700, T0900)>>,
      <<WorkLog(1, 9, T0900, T1700), WorkLog(2, 9, << >>, << >>)>>,
      <<WorkLog(1, 13, T0900, T1700), WorkLog(2, 40, T0900, << >>), WorkLog(3, 10, << >>, T1700)>> }

StoredTexts ==
    {Text(k, << >>) : k \in {"absent", "empty", "invalid", "null", "object", "number", "string"}}
    \cup {Text("array", l) : l \in StoredLists}

StoredCycles == {<< >>, <<EmptyDate>>, <<GarbageDate>>, <<8>>, <<9>>}

\* what a session that clocked two days of the cycle of day 8 left behind
SavedStore ==
    [cycle |-> <<8>>,
     logs  |-> Text("array", <<WorkLog(1, 8, T0900, T1700), WorkLog(2, 9, T1000, << >>)>>)]

\* the stores the page is opened on
Stores ==
    {[SavedStore EXCEPT !.cycle = c] : c \in StoredCycles}
    \cup {[SavedStore EXCEPT !.logs = t] : t \in StoredTexts}

NoProbe == [fn |-> "none"]

NoOp == [name |-> "none", id |-> 0, field |-> "", date |-> EmptyDate, time |-> << >>]

Op(name, id, field, date, time) == [name |-> name, id |-> id, field |-> field, date |-> date, time |-> time]

(* ---------------------------- state machine ---------------------------- *)

\* the state after the first render: useState initialisers (lines 87-89)
Init ==
    /\ utcOffset \in Offsets
    /\ now \in NowSet
    /\ storageUp \in BOOLEAN
    /\ store \in (IF storageUp THEN Stores ELSE {SavedStore})
    /\ cycleStart = getMondayOfCurrentCycle
    /\ logs = << >>
    /\ loaded = FALSE
    /\ err = "none"
    /\ nextId = 4
    /\ lastOp = NoOp
    /\ prevOp = NoOp
    /\ prevLogs = << >>
    /\ prevCycle = cycleStart
    /\ prevNextId = nextId
    /\ steps = 0
    /\ probe = NoProbe

\* a handler's or effect's state updates commit, then the save effects run
Commit(from, newLogs, newCycle, newNextId, op, firstLoad) ==
    /\ logs' = newLogs
    /\ cycleStart' = newCycle
    /\ nextId' = newNextId
    /\ loaded' = TRUE
    /\ err' = "none"
    /\ store' = saved(newLogs, newCycle, TRUE, firstLoad \/ newCycle # cycleStart)
    /\ lastOp' = op
    /\ prevOp' = lastOp
    /\ prevLogs' = from
    /\ prevCycle' = cycleStart
    /\ prevNextId' = nextId
    /\ UNCHANGED <<utcOffset, now, storageUp, probe>>

\* an exception leaves the effect, or the updater when React renders: no
\* error boundary exists, React unmounts the tree, nothing commits and no save
\* effect runs
Throw(from, e, op) ==
    /\ err' = e
    /\ lastOp' = op
    /\ prevOp' = lastOp
    /\ prevLogs' = from
    /\ prevCycle' = cycleStart
    /\ prevNextId' = nextId
    /\ UNCHANGED <<utcOffset, now, storageUp, store, cycleStart, logs, loaded, nextId, probe>>

\* what the load effect hands to initLogsForCycle as `parsed` (lines 95-101)
loadParsed ==
    LET savedLogs == storageGetLogs
    IN  IF savedLogs.kind \in {"absent", "empty"} THEN Arr(<< >>)
        ELSE IF jsonParse(savedLogs).ok THEN jsonParse(savedLogs).value
        ELSE Arr(<< >>)

\* savedCycle of the load effect (line 94); '' is falsy
loadSavedCycle ==
    IF storageGetCycle # << >> /\ storageGetCycle[1] # EmptyDate
    THEN storageGetCycle[1]
    ELSE getMondayOfCurrentCycle

\* the load effect (lines 93-105)
Load ==
    /\ ~loaded /\ err = "none"
    /\ LET r  == initLogsForCycle(loadSavedCycle, loadParsed, nextId)
           op == Op("load", 0, storageGetLogs.kind, loadSavedCycle, << >>)
       IN  IF r.err # "none"
           THEN Throw(loadParsed.val, r.err, op)
           ELSE Commit(loadParsed.val, r.logs, loadSavedCycle, r.nextId, op, TRUE)
    /\ UNCHANGED steps

\* the handlers run on the rendered table: after load, while the tree is mounted
Interactive == loaded /\ err = "none" /\ steps < MaxSteps

\* mutant of handleCycleChange: the given start is moved back to the Monday
\* of its week before it is stored
handleCycleChange_monday(newCycle) ==
    /\ Interactive
    /\ LET m  == IF IsDate(newCycle) THEN newCycle - ((newCycle + 6) % 7) ELSE newCycle
           r  == initLogsForCycle(m, Arr(logs), nextId)
           op == Op("changeCycle", 0, "", newCycle, << >>)
       IN  IF r.err # "none"
           THEN Throw(logs, r.err, op)
           ELSE Commit(logs, r.logs, m, r.nextId, op, FALSE)
    /\ steps' = steps + 1

\* handleCycleChange (lines 117-120)
handleCycleChange(newCycle) ==
    /\ Interactive
    /\ LET r  == initLogsForCycle(newCycle, Arr(logs), nextId)
           op == Op("changeCycle", 0, "", newCycle, << >>)
       IN  IF r.err # "none"
           THEN Throw(logs, r.err, op)
           ELSE Commit(logs, r.logs, newCycle, r.nextId, op, FALSE)
    /\ steps' = steps + 1

\* updateLog (lines 122-124) from a row's date input (line 415)
updateLogDate(id, value) ==
    /\ Interactive
    /\ Commit(logs, updateLogMap(logs, id, "date", value), cycleStart, nextId,
              Op("editField", id, "date", value, << >>), FALSE)
    /\ steps' = steps + 1

\* updateLog (lines 122-124) from a row's time inputs (lines 434, 445)
updateLogTime(id, field, value) ==
    /\ Interactive
    /\ Commit(logs, updateLogMap(logs, id, field, value), cycleStart, nextId,
              Op("editField", id, field, EmptyDate, value), FALSE)
    /\ steps' = steps + 1

\* clockIn (lines 126-130)
clockIn(id, nowStr) ==
    /\ Interactive
    /\ Commit(logs, clockInMap(logs, id, nowStr), cycleStart, nextId,
              Op("clockIn", id, "", EmptyDate, nowStr), FALSE)
    /\ steps' = steps + 1

\* clockOut (lines 132-136)
clockOut(id, nowStr) ==
    /\ Interactive
    /\ Commit(logs, clockOutMap(logs, id, nowStr), cycleStart, nextId,
              Op("clockOut", id, "", EmptyDate, nowStr), FALSE)
    /\ steps' = steps + 1

\* clearLog (lines 138-140)
clearLog(id) ==
    /\ Interactive
    /\ Commit(logs, clearLogMap(logs, id), cycleStart, nextId,
              Op("clear", id, "", EmptyDate, << >>), FALSE)
    /\ steps' = steps + 1

\* mutant of Reload: the save effects of the new mount run without the
\* `loaded` guard and write the empty pre-load state
Reload_unguarded ==
    /\ loaded \/ err # "none"
    /\ steps < MaxSteps
    /\ storageUp' \in BOOLEAN
    /\ cycleStart' = getMondayOfCurrentCycle
    /\ logs' = << >>
    /\ loaded' = FALSE
    /\ err' = "none"
    /\ store' = IF storageUp' THEN [logs |-> jsonStringify(<< >>), cycle |-> <<cycleStart'>>]
                ELSE store
    /\ lastOp' = Op("reload", 0, "", EmptyDate, << >>)
    /\ prevOp' = lastOp
    /\ prevLogs' = logs
    /\ prevCycle' = cycleStart
    /\ prevNextId' = nextId
    /\ steps' = steps + 1
    /\ UNCHANGED <<utcOffset, now, nextId, probe>>

\* the user reloads the page: the component is constructed again (lines
\* 87-89) over the store as it is
Reload ==
    /\ loaded \/ err # "none"
    /\ steps < MaxSteps
    /\ storageUp' \in BOOLEAN
    /\ cycleStart' = getMondayOfCurrentCycle
    /\ logs' = << >>
    /\ loaded' = FALSE
    /\ err' = "none"
    /\ lastOp' = Op("reload", 0, "", EmptyDate, << >>)
    /\ prevOp' = lastOp
    /\ prevLogs' = logs
    /\ prevCycle' = cycleStart
    /\ prevNextId' = nextId
    /\ steps' = steps + 1
    /\ UNCHANGED <<utcOffset, now, store, nextId, probe>>

Next ==
    \/ Load
    \/ \E c \in CycleInputs : handleCycleChange(c)
    \/ \E id \in TargetIds, v \in DateInputs : updateLogDate(id, v)
    \/ \E id \in TargetIds, f \in {"start", "end"}, v \in TimeInputs : updateLogTime(id, f, v)
    \/ \E id \in TargetIds, t \in NowTimes : clockIn(id, t)
    \/ \E id \in TargetIds, t \in NowTimes : clockOut(id, t)
    \/ \E id \in TargetIds : clearLog(id)
    \/ Reload

Spec == Init /\ [][Next]_vars

TypeOK ==
    /\ err \in {"none", "RangeError", "TypeError"}
    /\ loaded \in BOOLEAN
    /\ \A k \in 1..Len(logs) : logs[k].id \in Nat

(* ------------------------------- claims -------------------------------- *)

Range(f) == {f[k] : k \in 1..Len(f)}

IdsOf(list) == {list[k].id : k \in 1..Len(list)}

DatesOf(list) == {list[k].date : k \in 1..Len(list)}

\* d lies in the 14-day window that starts at c
InWindow(d, c) == IsDate(d) /\ c <= d /\ d <= c + 13

\* load or changeCycle has just completed
Reconciled == lastOp.name \in {"load", "changeCycle"} /\ err = "none" /\ loaded

\* C1: after the initial load and after every changeCycle(c) that completes,
\* cycleStart is c as given and the list holds exactly one record per date of
\* getWeekdaysInCycle(c), in chronological order: the first previous record
\* with that date if there is one, else a new record with empty start and end
\* and an id no previous record has; previous records whose date is not in
\* the weekday set are gone.
C1_ReconciledOnLoadAndChangeCycle ==
    Reconciled =>
        LET c == lastOp.date
            W == getWeekdaysInCycle(c).dates
        IN  /\ cycleStart = c
            /\ Len(logs) = Len(W)
            /\ \A k \in 1..Len(logs) : logs[k].date = W[k]
            /\ \A k \in 1..(Len(logs) - 1) : logs[k].date < logs[k + 1].date
            /\ \A j \in 1..Len(prevLogs) :
                  prevLogs[j].date \notin Range(W) => prevLogs[j] \notin Range(logs)
            /\ \A k \in 1..Len(logs) :
                  IF \E j \in 1..Len(prevLogs) : prevLogs[j].date = W[k]
                  THEN \E j \in 1..Len(prevLogs) :
                          /\ logs[k] = prevLogs[j]
                          /\ \A i \in 1..(j - 1) : prevLogs[i].date # W[k]
                  ELSE /\ logs[k].start = << >> /\ logs[k].end = << >>
                       /\ logs[k].id \notin IdsOf(prevLogs)

\* a changeCycle to a start that is no Monday has completed, kept one record,
\* dropped another and created a third
C1_Witness ==
    /\ Reconciled /\ lastOp.name = "changeCycle"
    /\ lastOp.date % 7 # 1
    /\ cycleStart = lastOp.date
    /\ \E j \in 1..Len(prevLogs) : prevLogs[j] \notin Range(logs)
    /\ \E j \in 1..Len(prevLogs) : prevLogs[j] \in Range(logs) /\ prevLogs[j].start # << >>
    /\ \E k \in 1..Len(logs) : logs[k] \notin Range(prevLogs)

\* C2: reconcile is idempotent: reconciling the result of a load or of a
\* changeCycle (whatever list it started from) against the same cycle start
\* again returns the same list and takes no new id.
C2_ReconcileIdempotent ==
    Reconciled =>
        LET again == initLogsForCycle(cycleStart, Arr(logs), nextId)
        IN  /\ again.err = "none"
            /\ again.logs = logs
            /\ again.nextId = nextId

\* a reconciliation that started from a list with two records of one date or
\* with a date outside the cycle, and that had to create records
C2_Witness ==
    /\ Reconciled
    /\ nextId > prevNextId
    /\ \/ \E i, j \in 1..Len(prevLogs) : i # j /\ prevLogs[i].date = prevLogs[j].date
       \/ \E j \in 1..Len(prevLogs) : prevLogs[j].date \notin DatesOf(logs)
    /\ \E k \in 1..Len(logs) : logs[k].start # << >>

\* C3: on a cycle change from c1 to c2, every date that is a weekday of both
\* keeps its record (the one at that date's place in the list of c1) with the
\* same id, start and end; every date new in c2 gets a record with empty start
\* and end and an id that differs from every other id in the result and from
\* every id that existed before.
C3_CommonDatesKeptNewDatesFresh ==
    (Reconciled /\ lastOp.name = "changeCycle" /\ cycleStart # prevCycle) =>
        LET W1 == getWeekdaysInCycle(prevCycle).dates
            W2 == getWeekdaysInCycle(cycleStart).dates
        IN  /\ \A k \in 1..Len(W1) :
                  W1[k] \in Range(W2) =>
                      \E j \in 1..Len(logs) :
                          /\ logs[j].date = W1[k]
                          /\ logs[j].id = prevLogs[k].id
                          /\ logs[j].start = prevLogs[k].start
                          /\ logs[j].end = prevLogs[k].end
            /\ \A j \in 1..Len(logs) :
                  logs[j].date \notin Range(W1) =>
                      /\ logs[j].start = << >> /\ logs[j].end = << >>
                      /\ logs[j].id \notin IdsOf(prevLogs)
                      /\ \A i \in 1..Len(logs) : i # j => logs[i].id # logs[j].id

\* C4: in every state after load, every record's date is a non-weekend day
\* inside the 14-day window of the current cycleStart.
C4_DatesAreWeekdaysInWindow ==
    loaded =>
        \A k \in 1..Len(logs) :
            /\ InWindow(logs[k].date, cycleStart)
            /\ logs[k].date % 7 \notin {0, 6}

\* C5: a record (by id) disappears only in a step that changes the cycle start
\* and only when its date is outside the new window; a reload over the saved
\* list removes no record, and a record that stays through a cycle change or a
\* reload keeps its start and end.
C5_RecordsLeaveOnlyWithTheirCycle ==
    [][ /\ (loaded /\ loaded' /\ err' = "none") =>
              \A k \in 1..Len(logs) :
                  /\ logs[k].id \notin IdsOf(logs') =>
                        cycleStart' # cycleStart /\ ~InWindow(logs[k].date, cycleStart')
                  /\ lastOp'.name = "changeCycle" =>
                        \A j \in 1..Len(logs') :
                            logs'[j].id = logs[k].id =>
                                logs'[j].start = logs[k].start /\ logs'[j].end = logs[k].end
        /\ (~loaded /\ loaded' /\ lastOp.name = "reload" /\ storageUp
               /\ store.logs = jsonStringify(prevLogs) /\ store.cycle = <<prevCycle>>) =>
              \A k \in 1..Len(prevLogs) : prevLogs[k].id \in IdsOf(logs')
      ]_vars

\* C6: clockIn(id, now) sets start = now on the records with that id whose
\* start is empty and changes nothing else; a second clockIn on the same id
\* leaves start as the first call left it.
C6_ClockInOnlyWhenStartEmpty ==
    lastOp.name = "clockIn" =>
        /\ cycleStart = prevCycle
        /\ Len(logs) = Len(prevLogs)
        /\ \A k \in 1..Len(logs) :
              IF prevLogs[k].id = lastOp.id /\ prevLogs[k].start = << >>
              THEN logs[k] = [prevLogs[k] EXCEPT !.start = lastOp.time]
              ELSE logs[k] = prevLogs[k]
        /\ (prevOp.name = "clockIn" /\ prevOp.id = lastOp.id) =>
              \A k \in 1..Len(logs) :
                  logs[k].id = lastOp.id => logs[k].start = prevLogs[k].start /\ logs[k].start # << >>

\* exactly two handler calls, both clockIn on one row with different times:
\* start is the time of the first call (no stored record starts at 17:00)
C6_Witness ==
    /\ steps = 2
    /\ lastOp.name = "clockIn" /\ prevOp.name = "clockIn"
    /\ lastOp.id = prevOp.id /\ lastOp.time = T1000 /\ prevOp.time = T1700
    /\ \E k \in 1..Len(logs) : logs[k].id = lastOp.id /\ logs[k].start = T1700
    /\ \E k \in 1..Len(logs) : logs[k].id # lastOp.id

\* C7: clockOut(id, now) sets end = now on the records with that id, whatever
\* their previous end and whether or not start is empty; their id, date and
\* start and every other record are unchanged.
C7_ClockOutAlwaysOverwritesEnd ==
    lastOp.name = "clockOut" =>
        /\ cycleStart = prevCycle
        /\ Len(logs) = Len(prevLogs)
        /\ \A k \in 1..Len(logs) :
              IF prevLogs[k].id = lastOp.id
              THEN /\ logs[k].end = lastOp.time
                   /\ logs[k].id = prevLogs[k].id
                   /\ logs[k].date = prevLogs[k].date
                   /\ logs[k].start = prevLogs[k].start
              ELSE logs[k] = prevLogs[k]

\* a second clockOut has overwritten the end the first one set, on a row
\* whose start is empty, next to a row it left alone
C7_Witness ==
    /\ lastOp.name = "clockOut" /\ prevOp.name = "clockOut" /\ prevOp.id = lastOp.id
    /\ \E k \in 1..Len(logs) :
          /\ prevLogs[k].id = lastOp.id
          /\ prevLogs[k].start = << >>
          /\ prevLogs[k].end = prevOp.time /\ prevOp.time # lastOp.time
          /\ logs[k].end = lastOp.time
    /\ \E k \in 1..Len(logs) : logs[k].id # lastOp.id /\ logs[k] = prevLogs[k]

\* C8: clear(id) empties start and end of the records with that id, leaves
\* their id and date and every other record unchanged; the cleared record
\* contributes 0 hours, is no worked day and no core violation, and a clockIn
\* that follows on it sets its start.
C8_ClearEmptiesStartAndEnd ==
    /\ lastOp.name = "clear" =>
          /\ cycleStart = prevCycle
          /\ Len(logs) = Len(prevLogs)
          /\ \A k \in 1..Len(logs) :
                IF prevLogs[k].id = lastOp.id
                THEN /\ logs[k] = WorkLog(prevLogs[k].id, prevLogs[k].date, << >>, << >>)
                     /\ calculateHours(logs[k].start, logs[k].end) = 0
                     /\ ~isWorked(logs[k])
                     /\ ~isViolation(logs[k])
                ELSE logs[k] = prevLogs[k]
    /\ (lastOp.name = "clockIn" /\ prevOp.name = "clear" /\ prevOp.id = lastOp.id) =>
          \A k \in 1..Len(logs) : logs[k].id = lastOp.id => logs[k].start = lastOp.time

\* exactly two handler calls, clear and then clockIn, on the record with id 1
\* of day 8 (every stored record with that id and date has a start and an
\* end): its end is empty and its start is the clockIn time; another row
\* still has its start
C8_Witness ==
    /\ steps = 2
    /\ lastOp.name = "clockIn" /\ prevOp.name = "clear" /\ prevOp.id = lastOp.id
    /\ lastOp.id = 1
    /\ \E k \in 1..Len(logs) :
          /\ logs[k].id = 1 /\ logs[k].date = 8
          /\ logs[k].start = lastOp.time /\ logs[k].end = << >>
    /\ \E k \in 1..Len(logs) : logs[k].id # lastOp.id /\ logs[k].start # << >>

\* C9: at load, when the stored records text is not a list of records (no
\* valid JSON, or JSON null, an object, a number or a string), load completes
\* and yields the default set: 10 records with empty start and end.
C9_MalformedStoredLogsGiveDefaults ==
    (lastOp.name = "load" /\ lastOp.field \in {"invalid", "null", "object", "number", "string"}) =>
        /\ err = "none"
        /\ loaded
        /\ Len(logs) = 10
        /\ \A k \in 1..Len(logs) : logs[k].start = << >> /\ logs[k].end = << >>

\* C10: no operation reaches an error state.
C10_NoOperationThrows == err = "none"

(* ----------------------- the calendar on its own ------------------------ *)

\* local UTC offsets in hours, from UTC-11 to UTC+14
CalOffsets == {-11, -5, 0, 1, 9, 14}

\* the instants new Date() returns: 00:00, 08:00, 15:00 and 23:00 UTC of the
\* days 14 (a Sunday) to 20 (a Saturday)
CalNows == {d * 24 + h : d \in 14..20, h \in {0, 8, 15, 23}}

\* the cycle starts given: one for every weekday, Monday day 8 to Sunday day 14
CalStarts == 8..14

\* the state the calendar functions read: the clock and the time zone; the
\* component's state plays no part
InitCalendar ==
    /\ utcOffset \in CalOffsets
    /\ now \in CalNows
    /\ storageUp = TRUE
    /\ store = SavedStore
    /\ cycleStart = getMondayOfCurrentCycle
    /\ logs = << >>
    /\ loaded = FALSE
    /\ err = "none"
    /\ nextId = 3
    /\ lastOp = NoOp
    /\ prevOp = NoOp
    /\ prevLogs = << >>
    /\ prevCycle = cycleStart
    /\ prevNextId = nextId
    /\ steps = 0
    /\ probe = NoProbe

\* a call of getWeekdaysInCycle(c)
CallGetWeekdaysInCycle(c) ==
    /\ probe' = [fn |-> "getWeekdaysInCycle", arg |-> c,
                 ok |-> getWeekdaysInCycle(c).ok, dates |-> getWeekdaysInCycle(c).dates]
    /\ UNCHANGED <<utcOffset, now, storageUp, store, cycleStart, logs, loaded, err,
                   nextId, lastOp, prevOp, prevLogs, prevCycle, prevNextId, steps>>

\* a call of getMondayOfCurrentCycle()
CallGetMondayOfCurrentCycle ==
    /\ probe' = [fn |-> "getMondayOfCurrentCycle", arg |-> now,
                 ok |-> TRUE, dates |-> <<getMondayOfCurrentCycle>>]
    /\ UNCHANGED <<utcOffset, now, storageUp, store, cycleStart, logs, loaded, err,
                   nextId, lastOp, prevOp, prevLogs, prevCycle, prevNextId, steps>>

NextCalendar ==
    \/ \E c \in CalStarts : CallGetWeekdaysInCycle(c)
    \/ CallGetMondayOfCurrentCycle

SpecCalendar == InitCalendar /\ [][NextCalendar]_vars

\* C11: for every cycle start, whatever its weekday and whatever the UTC
\* offset, getWeekdaysInCycle returns exactly 10 dates in strictly increasing
\* order, none a Saturday or Sunday, all within cycleStart .. cycleStart + 13.
C11_TenWeekdaysInsideTheWindow ==
    probe.fn = "getWeekdaysInCycle" =>
        /\ probe.ok
        /\ Len(probe.dates) = 10
        /\ \A k \in 1..(Len(probe.dates) - 1) : probe.dates[k] < probe.dates[k + 1]
        /\ \A k \in 1..Len(probe.dates) :
              /\ probe.dates[k] % 7 \notin {0, 6}
              /\ probe.arg <= probe.dates[k]
              /\ probe.dates[k] <= probe.arg + 13

\* C12: for every today (any weekday, time of day and UTC offset) the date
\* getMondayOfCurrentCycle returns is a Monday, is not after today (the local
\* date) and is at most 6 days before it.
C12_MondayOfThisWeek ==
    probe.fn = "getMondayOfCurrentCycle" =>
        LET today  == (probe.arg + utcOffset) \div 24
            monday == probe.dates[1]
        IN  /\ monday % 7 = 1
            /\ monday <= today
            /\ today - monday <= 6

(* -------------------- the time arithmetic on its own -------------------- *)

\* String(n).padStart(2, '0') for 0 <= n <= 99 (line 34)
padStart2(n) == <<n \div 10, n % 10>>

\* the "HH:MM" string of a time of day given in minutes, as getNowTimeStr and
\* the time inputs build it
timeStr(mins) == padStart2(mins \div 60) \o <<Colon>> \o padStart2(mins % 60)

\* the times of day the functions are called with, in minutes; NoTime stands
\* for the empty string
TimesOfDay == {h * 60 + m : h \in {0, 9, 10, 15, 16, 17, 23}, m \in {0, 1, 59}}

NoTime == -1

timeArg(mins) == IF mins = NoTime THEN << >> ELSE timeStr(mins)

\* the time functions read no state
InitTime ==
    /\ utcOffset = 0
    /\ now \in NowSet
    /\ storageUp = TRUE
    /\ store = SavedStore
    /\ cycleStart = getMondayOfCurrentCycle
    /\ logs = << >>
    /\ loaded = FALSE
    /\ err = "none"
    /\ nextId = 3
    /\ lastOp = NoOp
    /\ prevOp = NoOp
    /\ prevLogs = << >>
    /\ prevCycle = cycleStart
    /\ prevNextId = nextId
    /\ steps = 0
    /\ probe = NoProbe

\* a call of calculateHours(start, end) on the strings of the times s and e
CallCalculateHours(s, e) ==
    /\ probe' = [fn |-> "calculateHours", s |-> s, e |-> e,
                 start |-> timeArg(s), end |-> timeArg(e),
                 hours |-> calculateHours(timeArg(s), timeArg(e)), ok |-> TRUE]
    /\ UNCHANGED <<utcOffset, now, storageUp, store, cycleStart, logs, loaded, err,
                   nextId, lastOp, prevOp, prevLogs, prevCycle, prevNextId, steps>>

\* a call of isCoreOk(start, end) on the strings of the times s and e
CallIsCoreOk(s, e) ==
    /\ probe' = [fn |-> "isCoreOk", s |-> s, e |-> e,
                 start |-> timeArg(s), end |-> timeArg(e),
                 hours |-> 0, ok |-> isCoreOk(timeArg(s), timeArg(e))]
    /\ UNCHANGED <<utcOffset, now, storageUp, store, cycleStart, logs, loaded, err,
                   nextId, lastOp, prevOp, prevLogs, prevCycle, prevNextId, steps>>

NextTime ==
    \/ \E s, e \in TimesOfDay \cup {NoTime} : CallCalculateHours(s, e)
    \/ \E s, e \in TimesOfDay \cup {NoTime} : CallIsCoreOk(s, e)

SpecTime == InitTime /\ [][NextTime]_vars

\* C14: calculateHours is 0 when either argument is empty; for zero-padded
\* HH:MM strings it is the minutes from start to end, divided by 60, when end
\* is not before start, and 0 when it is: never negative, never wrapped past
\* midnight. (Hours are counted in sixtieths.)
C14_CalculateHoursIsClampedSpan ==
    probe.fn = "calculateHours" =>
        /\ probe.hours >= 0
        /\ (probe.s = NoTime \/ probe.e = NoTime) => probe.hours = 0
        /\ (probe.s # NoTime /\ probe.e # NoTime /\ probe.e >= probe.s) =>
              probe.hours = probe.e - probe.s
        /\ (probe.s # NoTime /\ probe.e # NoTime /\ probe.e < probe.s) => probe.hours = 0

\* calculateHours("17:01", "09:59"): an end before the start, with minutes
\* that differ the other way round
C14_Witness ==
    /\ probe.fn = "calculateHours"
    /\ probe.start = <<1, 7, Colon, 0, 1>> /\ probe.end = <<0, 9, Colon, 5, 9>>
    /\ probe.hours = 0

\* C15: isCoreOk is false when either time is empty; for zero-padded HH:MM
\* strings it is true exactly when start is at or before 10:00 and end at or
\* after 16:00 in time order, both bounds included.
C15_IsCoreOkIsNumericOrder ==
    probe.fn = "isCoreOk" =>
        /\ (probe.s = NoTime \/ probe.e = NoTime) => ~probe.ok
        /\ (probe.s # NoTime /\ probe.e # NoTime) =>
              (probe.ok <=> (probe.s <= 10 * 60 /\ probe.e >= 16 * 60))

\* isCoreOk("10:00", "16:00") has returned true
C15_Witness ==
    /\ probe.fn = "isCoreOk"
    /\ probe.start = T1000 /\ probe.end = <<1, 6, Colon, 0, 0>>
    /\ probe.ok


(* ------------------------------ C13: stats ------------------------------ *)

\* what one row of the table can hold: nothing, a start only, a compliant
\* 8-hour day, a compliant 17-hour day, a late start, an end before the start
DayTimes ==
    { <<<< >>, << >>>>, <<T0900, << >>>>, <<T0900, T1700>>, <<T0000, T1700>>,
      <<T1001, T1700>>, <<T1700, T0900>> }

\* the ten records of the cycle of day 8 whose first n rows hold the times a
\* and whose other rows hold the times b
TenDays(a, b, n) ==
    [k \in 1..10 |->
        WorkLog(k, <<8, 9, 10, 11, 12, 15, 16, 17, 18, 19>>[k],
                IF k <= n THEN a[1] ELSE b[1], IF k <= n THEN a[2] ELSE b[2])]

\* the component rendered over a table of ten records
InitStats ==
    /\ utcOffset = 0
    /\ now \in NowSet
    /\ storageUp = TRUE
    /\ store = SavedStore
    /\ cycleStart = 8
    /\ logs \in {TenDays(a, b, n) : a \in DayTimes, b \in DayTimes, n \in 0..10}
    /\ loaded = TRUE
    /\ err = "none"
    /\ nextId = 11
    /\ lastOp = NoOp
    /\ prevOp = NoOp
    /\ prevLogs = logs
    /\ prevCycle = cycleStart
    /\ prevNextId = nextId
    /\ steps = 0
    /\ probe = NoProbe

\* the stats memo is computed for the table
CallStats ==
    /\ probe' = [fn |-> "stats", st |-> stats(logs)]
    /\ UNCHANGED <<utcOffset, now, storageUp, store, cycleStart, logs, loaded, err,
                   nextId, lastOp, prevOp, prevLogs, prevCycle, prevNextId, steps>>

NextStats == CallStats

SpecStats == InitStats /\ [][NextStats]_vars

\* the rows of the table with both times present
WorkedRows == {k \in 1..Len(logs) : logs[k].start # << >> /\ logs[k].end # << >>}

\* the sum over the first n rows of the hours of each row
RECURSIVE HoursUpTo(_)
HoursUpTo(n) ==
    IF n = 0 THEN 0 ELSE HoursUpTo(n - 1) + calculateHours(logs[n].start, logs[n].end)

\* C13: in every state the statistics are functions of the ten records:
\* total is the sum of the records' hours, remain is 80 - total floored at
\* 0, percent is 100 * total / 80 capped at 100, workedDays counts the rows
\* with both times, coreViolations counts those of them that fail isCoreOk,
\* and avgDaily is total / workedDays (0 when no day is worked); so
\* 0 <= remain <= 80, 0 <= percent <= 100, coreViolations <= workedDays
\* <= 10, and ten compliant 8-hour days give total 80, remain 0, percent 100
C13_StatsFollowTheRecords ==
    probe.fn = "stats" =>
    LET st == probe.st
        total == HoursUpTo(Len(logs))
        target == TARGET_HOURS * 60
        capped == IF total < target THEN total ELSE target
        \* target is 48 sixtieths of an hour per percent, so
        \* percent = capped / (target \div 100)
    IN  /\ st.total = total
        /\ st.remain = target - capped
        /\ st.percent[2] > 0
        /\ st.percent[1] * (target \div 100) = capped * st.percent[2]
        /\ st.workedDays = Cardinality(WorkedRows)
        /\ st.coreViolations =
               Cardinality({k \in WorkedRows : ~isCoreOk(logs[k].start, logs[k].end)})
        /\ st.avgDaily[2] > 0
        /\ IF WorkedRows = {} THEN st.avgDaily[1] = 0
           ELSE st.avgDaily[1] * Cardinality(WorkedRows) = total * st.avgDaily[2]
        /\ 0 <= st.remain /\ st.remain <= target
        /\ 0 <= st.percent[1] /\ st.percent[1] <= 100 * st.percent[2]
        /\ st.coreViolations <= st.workedDays /\ st.workedDays <= 10
        /\ (/\ Len(logs) = 10
            /\ \A k \in 1..10 : /\ calculateHours(logs[k].start, logs[k].end) = 8 * 60
                                 /\ isCoreOk(logs[k].start, logs[k].end))
           => st.total = target /\ st.remain = 0 /\ st.percent = <<100, 1>>

\* more than the target is recorded, so both clamps act, on a table with
\* one late start and nine 17-hour days
C13_Witness ==
    /\ probe.fn = "stats"
    /\ probe.st.total > TARGET_HOURS * 60
    /\ probe.st.remain = 0
    /\ probe.st.percent = <<100, 1>>
    /\ probe.st.coreViolations = 1
    /\ probe.st.workedDays = 10


(* --------------------------- C16: persistence --------------------------- *)

\* C16: no step writes the store while the initial load has not completed,
\* so a reload never replaces the stored records by the empty pre-load
\* state; once loaded, after every step the stored list and the stored
\* cycle start are the in-memory logs and cycleStart whenever storage
\* works; when storage fails the store is left alone, the load proceeds as
\* if nothing was stored (the default records of the current Monday) and no
\* step raises except a cycle change to a value that is not a date
C16_StoreFollowsMemoryAfterLoad ==
    [][ /\ ~loaded' => store' = store
        /\ (loaded' /\ storageUp') =>
              store'.logs = jsonStringify(logs') /\ store'.cycle = <<cycleStart'>>
        /\ ~storageUp' => store' = store
        /\ (~storageUp /\ lastOp'.name = "load") =>
              /\ err' = "none" /\ loaded'
              /\ lastOp'.field = "absent"
              /\ cycleStart' = getMondayOfCurrentCycle
              /\ Len(logs') = 10
              /\ \A k \in 1..Len(logs') : logs'[k].start = << >> /\ logs'[k].end = << >>
        /\ (~storageUp /\ err' # "none") =>
              lastOp'.name = "changeCycle" /\ ~IsDate(lastOp'.date)
      ]_vars

\* a reload found stored records, loaded them without writing before the
\* load, and a cycle change was then saved: the store holds the new cycle
\* start and the new list
C16_Witness ==
    /\ storageUp /\ loaded /\ err = "none"
    /\ steps = 2
    /\ prevOp.name = "load"
    /\ lastOp.name = "changeCycle"
    /\ cycleStart # prevCycle
    /\ logs # prevLogs
    /\ store.cycle = <<cycleStart>>
    /\ store.logs = jsonStringify(logs)


(* ---------------- C17: the alternate implementation's resetAll ---------- *)

T0800 == <<0, 8, Colon, 0, 0>>

LogTypes == {"work", "half", "full"}

\* a record of the alternate implementation
AltWorkLog(id, date, start, end, type) ==
    [id |-> id, date |-> date, start |-> start, end |-> end, type |-> type]

\* the while loop of generateInitialLogs: current is the instant of the
\* iteration, acc the records pushed so far
RECURSIVE generateLoop(_, _, _)
generateLoop(current, acc, nid) ==
    IF Len(acc) >= 10 THEN acc
    ELSE IF getDay(current) # 0 /\ getDay(current) # 6
    THEN generateLoop(addDays(current, 1),
                      Append(acc, AltWorkLog(nid + Len(acc), toISODate(current),
                                             T0800, T1700, "work")),
                      nid)
    ELSE generateLoop(addDays(current, 1), acc, nid)

\* generateInitialLogs: startDay is now moved back to the Monday of the
\* local week, the time of day kept; crypto.randomUUID() gives the ids
\* nid .. nid + 9
generateInitialLogs(nid) ==
    LET startDay == addDays(now, -(IF getDay(now) = 0 THEN 6 ELSE getDay(now) - 1))
    IN  generateLoop(startDay, << >>, nid)

\* updateLog(id, updates) with one key in updates
altUpdateLogMap(list, id, field, value) ==
    [k \in 1..Len(list) |->
        IF list[k].id = id THEN [list[k] EXCEPT ![field] = value] ELSE list[k]]

AltOffsets == {-5, 0, 9}

AltNows == {14 * 24 + 22, 17 * 24 + 10}

AltTimes == {<< >>, T0900, T1000}

AltTargetIds == {logs[1].id, logs[10].id, 0}

\* the component of the alternate implementation after its first render
InitAlt ==
    /\ utcOffset \in AltOffsets
    /\ now \in AltNows
    /\ storageUp = TRUE
    /\ store = SavedStore
    /\ cycleStart = EmptyDate
    /\ logs = generateInitialLogs(1)
    /\ loaded = TRUE
    /\ err = "none"
    /\ nextId = 11
    /\ lastOp = NoOp
    /\ prevOp = NoOp
    /\ prevLogs = logs
    /\ prevCycle = cycleStart
    /\ prevNextId = nextId
    /\ steps = 0
    /\ probe = NoProbe

\* what every handler of the alternate implementation records and leaves
AltStep(op) ==
    /\ steps < MaxSteps
    /\ steps' = steps + 1
    /\ lastOp' = op
    /\ prevOp' = lastOp
    /\ prevLogs' = logs
    /\ prevCycle' = cycleStart
    /\ prevNextId' = nextId
    /\ UNCHANGED <<utcOffset, now, storageUp, store, cycleStart, loaded, err, probe>>

\* updateLog(log.id, { type: t })
altUpdateLogType(id, t) ==
    /\ AltStep(Op("updateLog", id, "type", EmptyDate, << >>))
    /\ logs' = altUpdateLogMap(logs, id, "type", t)
    /\ UNCHANGED nextId

\* updateLog(log.id, { start: v }) and updateLog(log.id, { end: v }), from
\* the time inputs and from the clock buttons
altUpdateLogTime(id, field, v) ==
    /\ AltStep(Op("updateLog", id, field, EmptyDate, v))
    /\ logs' = altUpdateLogMap(logs, id, field, v)
    /\ UNCHANGED nextId

\* resetAll: confirmed is what window.confirm returns
resetAll(confirmed) ==
    /\ AltStep(Op("resetAll", 0, IF confirmed THEN "confirmed" ELSE "declined",
                  EmptyDate, << >>))
    /\ IF confirmed
       THEN logs' = generateInitialLogs(nextId) /\ nextId' = nextId + 10
       ELSE UNCHANGED <<logs, nextId>>

NextAlt ==
    \/ \E id \in AltTargetIds, t \in LogTypes : altUpdateLogType(id, t)
    \/ \E id \in AltTargetIds, f \in {"start", "end"}, v \in AltTimes : altUpdateLogTime(id, f, v)
    \/ \E c \in BOOLEAN : resetAll(c)

SpecAlt == InitAlt /\ [][NextAlt]_vars

\* the Monday of the local week of now
MondayOfThisWeek ==
    LET today == (now + utcOffset) \div 24
    IN  today - ((today + 6) % 7)

\* C17: after resetAll the records are a fresh default set when the user
\* confirmed - ten records with new ids, 08:00 to 17:00, type work, dated
\* the ten weekdays from the Monday of the current week on - and exactly
\* the records as they were when the user declined
C17_ResetAllOnlyOnConfirm ==
    lastOp.name = "resetAll" =>
        IF lastOp.field = "confirmed"
        THEN /\ Len(logs) = 10
             /\ \A k \in 1..10 :
                    /\ logs[k].id \notin IdsOf(prevLogs)
                    /\ logs[k].start = T0800 /\ logs[k].end = T1700
                    /\ logs[k].type = "work"
                    /\ logs[k].date % 7 \notin {0, 6}
             /\ \A j, k \in 1..10 : j < k => logs[j].id # logs[k].id
             /\ logs[1].date = MondayOfThisWeek
             /\ \A k \in 1..10 :
                    logs[k].date = MondayOfThisWeek + (k - 1) + 2 * ((k - 1) \div 5)
        ELSE logs = prevLogs


(* ----------------------- C18: the table keeps its rows ------------------ *)

\* the rows the last handler call changed
ChangedRows == {k \in 1..Len(logs) : logs[k] # prevLogs[k]}

\* C18: once loaded the table has exactly ten records with pairwise
\* distinct ids; clockIn, clockOut, editField and clear keep the number and
\* order of the records and every id, change no record whose id differs
\* from the given one and so at most one record, and change nothing when no
\* record has the given id; editField leaves the given value, whatever it
\* is, in the named field of the record and its other fields as they were
C18_TenRowsDistinctIdsHandlersKeepThem ==
    /\ loaded =>
          /\ Len(logs) = 10
          /\ Cardinality(IdsOf(logs)) = Len(logs)
    /\ (lastOp.name \in {"clockIn", "clockOut", "editField", "clear"}) =>
          /\ err = "none" /\ loaded
          /\ Len(logs) = Len(prevLogs)
          /\ \A k \in 1..Len(logs) :
                 /\ logs[k].id = prevLogs[k].id
                 /\ prevLogs[k].id # lastOp.id => logs[k] = prevLogs[k]
          /\ Cardinality(ChangedRows) <= 1
          /\ lastOp.id \notin IdsOf(prevLogs) => logs = prevLogs
    /\ (lastOp.name = "editField") =>
          \A k \in 1..Len(logs) :
             prevLogs[k].id = lastOp.id =>
                logs[k] = CASE lastOp.field = "date"  -> [prevLogs[k] EXCEPT !.date = lastOp.date]
                            [] lastOp.field = "start" -> [prevLogs[k] EXCEPT !.start = lastOp.time]
                            [] lastOp.field = "end"   -> [prevLogs[k] EXCEPT !.end = lastOp.time]

\* an edit has put a Saturday, day 13, into the date field of one record of
\* the ten and left the other nine alone
C18_Witness ==
    /\ loaded /\ err = "none"
    /\ Len(logs) = 10
    /\ lastOp.name = "editField" /\ lastOp.field = "date" /\ lastOp.date = 13
    /\ ChangedRows # {}
    /\ \A k \in ChangedRows : logs[k].id = lastOp.id /\ logs[k].date = 13 /\ prevLogs[k].date # 13

====
